---- MODULE Spec2Model ----
(***************************************************************************)
(* Model of the Reddit harvesting programs of this repository:             *)
(*   scripts/historic_reddit_data_pull.py  (variant "script")              *)
(*       get_date_range, upload_to_s3, download_subreddit_by_date          *)
(*   dags/reddit_scraper_dag.py            (variant "dag")                 *)
(*       fetch_reddit_data, upload_to_s3                                   *)
(* Time is counted in hours.  The Reddit listing, the Pushshift search,    *)
(* the per-id detail lookup and the S3 write are the environment: every    *)
(* call either raises (a transient error or a credential error) or returns *)
(* a value chosen from small sets.  The creation time of a post is fixed   *)
(* for the run; its removed flag and its body are read at each lookup.     *)
(***************************************************************************)
EXTENDS Integers, Sequences, FiniteSets, TLC

\* ---------------------------------------------------------------- bounds
MaxHalfDays == 3            \* longest range, in half days
MaxArchive  == 2            \* longest identifier list the archive returns

\* ------------------------------------------------------ program constants
Day         == 24           \* timedelta(days=1), in hours
HorizonDays == 90           \* (datetime.now() - start).days < 90

Ids         == {1, 2}
NowTimes    == {2400}
StartDates  == {228, 252}   \* 228: first window outside the horizon, second inside
ErrorKinds  == {"transient", "auth"}
RemovedVals == {"none", "moderator"}      \* submission.removed_by_category
TextVals    == {"", "text"}               \* submission.selftext

VARIABLES
    variant,        \* "script" | "dag"
    start_date,     \* argument of the run
    end_date,       \* argument of the run
    now,            \* datetime.now()
    created,        \* created_utc of every post, as the detail endpoint reports it
    pc,             \* position of the run
    current_date,   \* get_date_range: local of the generator
    win,            \* the window being processed: [start, end]
    stories,        \* list of story dicts of the current window
    listed,         \* ids the LIVE listing has produced in this pass
    submission_ids, \* identifiers returned by the archive search
    idx,            \* position of the per-id loop in submission_ids
    store,          \* bucket content: key -> body
    puts,           \* every put issued: [key, body, ok, w]
    windows,        \* every window the generator has yielded
    cur,            \* history of the current window
    log,            \* history of the finished windows
    paced,          \* delay slept since the last outbound call: none | item | window
    exc,            \* exception that reached the caller of run_pipeline
    world,          \* what the sources and the bucket answer when they are unchanged
    run,            \* 1 | 2: which call of download_subreddit_by_date is running
    store1          \* bucket content when the first call returned

vars == <<variant, start_date, end_date, now, created, pc, current_date, win,
          stories, listed, submission_ids, idx, store, puts, windows, cur, log,
          paced, exc, world, run, store1>>

\* ------------------------------------------------------------ pure helpers

\* bounded sequences over S
SeqUpTo(S, n) == UNION {[1..k -> S] : k \in 0..n}

\* Python truthiness of removed_by_category (None or a string) and selftext
Truthy(v) == v # "" /\ v # "none"

\* get_date_range line 78
NextDateSkipsADay(d) == d + 2 * Day

NextDate(d) == d + Day

\* line 146 / dag line 40: (datetime.now() - start).days < 90
InHorizon(t, start) == ((t - start) \div Day) < HorizonDays

\* lines 153 / dag 45: start <= submission_time < end
InWindow(t, w) == w.start <= t /\ t < w.end

\* lines 154, 190 / dag 46, 75
EligibleIgnoresBody(sub) == ~Truthy(sub.removed_by_category)

Eligible(sub) == ~Truthy(sub.removed_by_category) /\ Truthy(sub.selftext)

\* lines 155-165, 191-201: the story dict
Story(sub) ==
    [id |-> sub.id, created_utc |-> sub.created_utc,
     removed_by_category |-> sub.removed_by_category, text |-> sub.selftext]

\* start.strftime('%Y%m%d') line 214, s3_path line 105 / dag 110
DateStr(t) == t \div Day
S3Path(t) == <<"reddit_data", DateStr(t)>>

\* a submission as the Reddit API returns it
Submission(i, r, s) ==
    [id |-> i, created_utc |-> created[i], removed_by_category |-> r, selftext |-> s]

\* history of one window: what was called and what came back
NewCur ==
    [live |-> "no", liveCount |-> 0, archive |-> "no", lookups |-> <<>>,
     excluded |-> FALSE, err |-> "none", auth |-> FALSE]

\* what is kept of a window once it has ended; p tells what became of its write
Finished(p) ==
    [win |-> win, batch |-> stories, live |-> cur.live, liveCount |-> cur.liveCount,
     archive |-> cur.archive, err |-> cur.err, auth |-> cur.auth, put |-> p]

\* put_object / load_string with replace semantics
PutBlobAppends(s, k, body) ==
    [x \in DOMAIN s \cup {k} |->
        IF x = k THEN (IF k \in DOMAIN s THEN s[k] \o body ELSE body) ELSE s[x]]

PutBlob(s, k, body) == [x \in DOMAIN s \cup {k} |-> IF x = k THEN body ELSE s[x]]

\* the answers of unchanged sources are not fixed in a single run
NoWorld == <<>>

\* ------------------------------------------------------------------- Init
Init ==
    /\ variant \in {"script", "dag"}
    /\ now \in NowTimes
    /\ start_date \in StartDates
    /\ end_date \in {start_date + h * (Day \div 2) : h \in (0 - 1)..MaxHalfDays}
    /\ variant = "dag" => end_date = start_date + Day
    /\ created \in {[i \in Ids |-> IF i = 1 THEN start_date ELSE t] :
                        t \in {start_date - 1, start_date + Day}}
    /\ pc = IF variant = "script" THEN "for" ELSE "dag_fetch"
    /\ current_date = start_date
    /\ win = [start |-> start_date, end |-> start_date]
    /\ stories = <<>>
    /\ listed = {}
    /\ submission_ids = <<>>
    /\ idx = 1
    /\ store = <<>>
    /\ puts = <<>>
    /\ windows = <<>>
    /\ cur = NewCur
    /\ log = <<>>
    /\ paced = "none"
    /\ exc = "none"
    /\ world = NoWorld
    /\ run = 1
    /\ store1 = <<>>

\* ------------------------------------------------- historic_reddit_data_pull

\* lines 139-146: the generator yields the next window, stories = [], and the
\* horizon test picks the first source
EnterWindow(w) ==
    /\ win' = w
    /\ stories' = <<>>
    /\ listed' = {}
    /\ submission_ids' = <<>>
    /\ idx' = 1
    /\ cur' = NewCur
    /\ windows' = Append(windows, w)
    /\ pc' = IF InHorizon(now, w.start) THEN "live" ELSE "search"

ForNext ==
    /\ pc = "for"
    /\ current_date < end_date
    /\ current_date' = NextDate(current_date)
    /\ EnterWindow([start |-> current_date, end |-> NextDate(current_date)])
    /\ UNCHANGED paced
    /\ UNCHANGED <<exc, world, run, store1>>
    /\ UNCHANGED <<variant, start_date, end_date, now, created, store, puts, log>>

\* line 77: the generator is exhausted, the function returns
ForDone ==
    /\ pc = "for"
    /\ ~(current_date < end_date)
    /\ pc' = "done"
    /\ UNCHANGED paced
    /\ UNCHANGED <<exc, world, run, store1>>
    /\ UNCHANGED <<variant, start_date, end_date, now, created, current_date, win,
                   stories, listed, submission_ids, idx, store, puts, windows,
                   cur, log>>

\* lines 150-169 / dag 42-58: one iteration of the LIVE listing
LiveAccept(sub, w) == InWindow(sub.created_utc, w) /\ Eligible(sub)

LiveNextOf(i, r, s) ==
    /\ pc = "live"
    /\ LET sub == Submission(i, r, s) IN
         /\ listed' = listed \cup {i}
         /\ stories' = IF LiveAccept(sub, win) THEN Append(stories, Story(sub))
                                               ELSE stories
         /\ cur' = [cur EXCEPT
                !.live = "running",
                !.liveCount = IF LiveAccept(sub, win) THEN @ + 1 ELSE @,
                !.excluded = @ \/ (InWindow(sub.created_utc, win) /\ ~Eligible(sub))]
    /\ paced' = IF variant = "script" THEN "item" ELSE "none"
    /\ UNCHANGED <<exc, world, run, store1>>
    /\ UNCHANGED <<variant, start_date, end_date, now, created, pc, current_date,
                   win, submission_ids, idx, store, puts, windows, log>>

LiveNext == \E i \in Ids \ listed, r \in RemovedVals, s \in TextVals : LiveNextOf(i, r, s)

\* the listing is exhausted; line 172 / dag 61: if not stories
LiveEnd ==
    /\ pc = "live"
    /\ cur' = [cur EXCEPT !.live = "done"]
    /\ listed' = {}
    /\ pc' = IF stories = <<>> THEN "search" ELSE "upload"
    /\ paced' = IF cur.live = "no" THEN "none" ELSE paced
    /\ UNCHANGED <<exc, world, run, store1>>
    /\ UNCHANGED <<variant, start_date, end_date, now, created, current_date, win,
                   stories, submission_ids, idx, store, puts, windows, log>>

\* the listing raises: control leaves the try block
LiveFailOf(k) ==
    /\ pc = "live"
    /\ cur' = [cur EXCEPT !.live = "failed", !.err = k, !.auth = @ \/ (k = "auth")]
    /\ listed' = {}
    /\ pc' = "except"
    /\ paced' = "none"
    /\ UNCHANGED <<exc, world, run, store1>>
    /\ UNCHANGED <<variant, start_date, end_date, now, created, current_date, win,
                   stories, submission_ids, idx, store, puts, windows, log>>

LiveFail == \E k \in ErrorKinds : LiveFailOf(k)

\* lines 177-185 / dag 65-70: the archive returns a list of identifiers
ArchiveSearchOf(ids) ==
    /\ pc = "search"
    /\ submission_ids' = ids
    /\ pc' = IF ids = <<>> THEN "upload" ELSE "lookup"
    /\ idx' = 1
    /\ cur' = [cur EXCEPT !.archive = "queried"]
    /\ paced' = "none"
    /\ UNCHANGED <<exc, world, run, store1>>
    /\ UNCHANGED <<variant, start_date, end_date, now, created, current_date, win,
                   stories, listed, store, puts, windows, log>>

ArchiveSearch == \E ids \in SeqUpTo(Ids, MaxArchive) : ArchiveSearchOf(ids)

ArchiveSearchFailOf(k) ==
    /\ pc = "search"
    /\ cur' = [cur EXCEPT !.archive = "failed", !.err = k, !.auth = @ \/ (k = "auth")]
    /\ pc' = "except"
    /\ paced' = "none"
    /\ UNCHANGED <<exc, world, run, store1>>
    /\ UNCHANGED <<variant, start_date, end_date, now, created, current_date, win,
                   stories, listed, submission_ids, idx, store, puts, windows, log>>

ArchiveSearchFail == \E k \in ErrorKinds : ArchiveSearchFailOf(k)

\* lines 187-205 / dag 72-87: the detail lookup of one identifier succeeds
AfterLookup == IF idx + 1 > Len(submission_ids) THEN "upload" ELSE "lookup"

LookupOkOf(r, s) ==
    /\ pc = "lookup"
    /\ LET sub == Submission(submission_ids[idx], r, s) IN
         /\ stories' = IF Eligible(sub) THEN Append(stories, Story(sub)) ELSE stories
         /\ cur' = [cur EXCEPT
                !.lookups = Append(@, [id |-> sub.id, ok |-> TRUE,
                                       removed_by_category |-> r, selftext |-> s]),
                !.excluded = @ \/ ~Eligible(sub)]
    /\ idx' = idx + 1
    /\ pc' = AfterLookup
    /\ paced' = IF variant = "script" THEN "item" ELSE "none"
    /\ UNCHANGED <<exc, world, run, store1>>
    /\ UNCHANGED <<variant, start_date, end_date, now, created, current_date, win,
                   listed, submission_ids, store, puts, windows, log>>

LookupOk == \E r \in RemovedVals, s \in TextVals : LookupOkOf(r, s)

\* the lookup raises and no handler surrounds it
LookupFailPropagates ==
    /\ pc = "lookup"
    /\ \E k \in ErrorKinds :
         cur' = [cur EXCEPT
                !.lookups = Append(@, [id |-> submission_ids[idx], ok |-> FALSE,
                                       removed_by_category |-> "none",
                                       selftext |-> ""]),
                !.err = k,
                !.auth = @ \/ (k = "auth")]
    /\ idx' = idx + 1
    /\ pc' = "except"
    /\ paced' = "none"
    /\ UNCHANGED <<exc, world, run, store1>>
    /\ UNCHANGED <<variant, start_date, end_date, now, created, current_date, win,
                   stories, listed, submission_ids, store, puts, windows, log>>

\* lines 206-208 / dag 88-90: the lookup raises, the identifier is skipped
LookupFailOf(k) ==
    /\ pc = "lookup"
    /\ cur' = [cur EXCEPT
                !.lookups = Append(@, [id |-> submission_ids[idx], ok |-> FALSE,
                                       removed_by_category |-> "none",
                                       selftext |-> ""]),
                !.auth = @ \/ (k = "auth")]
    /\ idx' = idx + 1
    /\ pc' = AfterLookup
    /\ paced' = "none"
    /\ UNCHANGED <<exc, world, run, store1>>
    /\ UNCHANGED <<variant, start_date, end_date, now, created, current_date, win,
                   stories, listed, submission_ids, store, puts, windows, log>>

LookupFail == \E k \in ErrorKinds : LookupFailOf(k)

\* line 211: if stories
MustUploadAlways(st) == TRUE

MustUpload(st) == st # <<>>

\* lines 212-220 with upload_to_s3 lines 96-128: the write is issued; an error of
\* put_object is caught and printed inside upload_to_s3

UploadOf(ok) ==
    /\ pc = "upload"
    /\ variant = "script"
    /\ MustUpload(stories)
    /\ puts' = Append(puts, [key |-> S3Path(win.start), body |-> stories,
                             ok |-> ok, w |-> Len(windows)])
    /\ store' = IF ok THEN PutBlob(store, S3Path(win.start), stories) ELSE store
    /\ log' = Append(log, Finished(IF ok THEN "ok" ELSE "failed"))
    /\ pc' = "for"
    /\ paced' = "window"
    /\ UNCHANGED <<exc, world, run, store1>>
    /\ UNCHANGED <<variant, start_date, end_date, now, created, current_date, win,
                   stories, listed, submission_ids, idx, windows, cur>>

Upload == \E ok \in BOOLEAN : UploadOf(ok)

\* lines 216-220: no stories, nothing is written
NoStories ==
    /\ pc = "upload"
    /\ variant = "script"
    /\ ~MustUpload(stories)
    /\ log' = Append(log, Finished("none"))
    /\ pc' = "for"
    /\ paced' = "window"
    /\ UNCHANGED <<exc, world, run, store1>>
    /\ UNCHANGED <<variant, start_date, end_date, now, created, current_date, win,
                   stories, listed, submission_ids, idx, store, puts, windows, cur>>

\* line 226: continue
AfterExceptStops == "done"

AfterExcept == "for"

\* lines 222-225: the window-level handler prints the error

WindowExcept ==
    /\ pc = "except"
    /\ variant = "script"
    /\ log' = Append(log, Finished("none"))
    /\ pc' = AfterExcept
    /\ UNCHANGED paced
    /\ UNCHANGED <<exc, world, run, store1>>
    /\ UNCHANGED <<variant, start_date, end_date, now, created, current_date, win,
                   stories, listed, submission_ids, idx, store, puts, windows, cur>>

\* ------------------------------------------------------- reddit_scraper_dag

\* dag lines 30-40: fetch_reddit_data is called with one window
DagFetch ==
    /\ pc = "dag_fetch"
    /\ EnterWindow([start |-> start_date, end |-> end_date])
    /\ UNCHANGED paced
    /\ UNCHANGED <<exc, world, run, store1>>
    /\ UNCHANGED <<variant, start_date, end_date, now, created, current_date,
                   store, puts, log>>

\* dag lines 94-96: the handler logs and re-raises
FetchExcept ==
    /\ pc = "except"
    /\ variant = "dag"
    /\ log' = Append(log, Finished("none"))
    /\ pc' = "raised"
    /\ UNCHANGED paced
    /\ UNCHANGED <<exc, world, run, store1>>
    /\ UNCHANGED <<variant, start_date, end_date, now, created, current_date, win,
                   stories, listed, submission_ids, idx, store, puts, windows, cur>>

\* dag lines 98-118: upload_to_s3 of the returned stories; load_string may raise
DagUpload ==
    /\ pc = "upload"
    /\ variant = "dag"
    /\ stories # <<>>
    /\ \E ok \in BOOLEAN :
         /\ puts' = Append(puts, [key |-> S3Path(win.start), body |-> stories,
                                  ok |-> ok, w |-> Len(windows)])
         /\ store' = IF ok THEN PutBlob(store, S3Path(win.start), stories) ELSE store
         /\ log' = Append(log, Finished(IF ok THEN "ok" ELSE "failed"))
         /\ pc' = IF ok THEN "done" ELSE "raised"
    /\ paced' = "none"
    /\ UNCHANGED <<exc, world, run, store1>>
    /\ UNCHANGED <<variant, start_date, end_date, now, created, current_date, win,
                   stories, listed, submission_ids, idx, windows, cur>>

\* dag lines 100-102
DagNoStories ==
    /\ pc = "upload"
    /\ variant = "dag"
    /\ stories = <<>>
    /\ log' = Append(log, Finished("none"))
    /\ pc' = "done"
    /\ UNCHANGED paced
    /\ UNCHANGED <<exc, world, run, store1>>
    /\ UNCHANGED <<variant, start_date, end_date, now, created, current_date, win,
                   stories, listed, submission_ids, idx, store, puts, windows, cur>>

Next ==
    \/ ForNext
    \/ ForDone
    \/ LiveNext
    \/ LiveEnd
    \/ LiveFail
    \/ ArchiveSearch
    \/ ArchiveSearchFail
    \/ LookupOk
    \/ LookupFail
    \/ Upload
    \/ NoStories
    \/ WindowExcept
    \/ DagFetch
    \/ FetchExcept
    \/ DagUpload
    \/ DagNoStories

Spec == Init /\ [][Next]_vars

\* the interpreter keeps executing the run until it returns or raises
FairSpec == Spec /\ WF_vars(Next)

TypeOK ==
    /\ pc \in {"for", "dag_fetch", "live", "search", "lookup", "upload", "except",
                "done", "raised", "pipe_fetch", "pipe_upload"}
    /\ idx \in 1..(Len(submission_ids) + 1)
    /\ Len(log) <= Len(windows)

\* ------------------------------ download_subreddit_by_date called twice
\* The sources are unchanged between the two calls: the listing, the archive
\* search of a window, the lookup of an identifier and the write answer in the
\* second call as they did in the first.  Only the clock may have advanced.

\* listings of distinct posts, newest first
Listings == {q \in SeqUpTo(Ids, Cardinality(Ids)) :
                \A a, b \in 1..Len(q) : a < b => q[a] > q[b]}

\* starts of the windows of a range
WinStarts(s, e) == {x \in {s + k * Day : k \in 0..MaxHalfDays} : x < e}

Worlds(s, e, t) ==
    [listing : [ok : BOOLEAN, items : Listings],
     removed : {{}, {2}},
     archive : [WinStarts(s, e) -> [ok : BOOLEAN, ids : SeqUpTo(Ids, MaxArchive)]],
     lookupFails : {{}, {1}},
     putOk : BOOLEAN,
     now1 : {t},
     now2 : {t, t + Day}]

\* a failing call carries no result
WellFormed(w) ==
    /\ ~w.listing.ok => w.listing.items = <<>>
    /\ \A x \in DOMAIN w.archive : ~w.archive[x].ok => w.archive[x].ids = <<>>

InitRerun ==
    /\ variant = "script"
    /\ now \in NowTimes
    /\ start_date \in StartDates
    /\ end_date \in {start_date + h * (Day \div 2) : h \in 1..MaxHalfDays}
    /\ created = [i \in Ids |-> IF i = 1 THEN start_date ELSE start_date + Day]
    /\ world \in {w \in Worlds(start_date, end_date, now) : WellFormed(w)}
    /\ pc = "for"
    /\ current_date = start_date
    /\ win = [start |-> start_date, end |-> start_date]
    /\ stories = <<>>
    /\ listed = {}
    /\ submission_ids = <<>>
    /\ idx = 1
    /\ store = <<>>
    /\ puts = <<>>
    /\ windows = <<>>
    /\ cur = NewCur
    /\ log = <<>>
    /\ paced = "none"
    /\ exc = "none"
    /\ run = 1
    /\ store1 = <<>>

RemovedOf(i) == IF i \in world.removed THEN "moderator" ELSE "none"

\* the listing yields its next post
SameLiveNext ==
    /\ world.listing.ok
    /\ Cardinality(listed) < Len(world.listing.items)
    /\ LET i == world.listing.items[Cardinality(listed) + 1]
       IN LiveNextOf(i, RemovedOf(i), "text")

SameLiveEnd ==
    /\ world.listing.ok
    /\ Cardinality(listed) = Len(world.listing.items)
    /\ LiveEnd

SameLiveFail ==
    /\ ~world.listing.ok
    /\ LiveFailOf("transient")

SameArchiveSearch ==
    /\ pc = "search"
    /\ world.archive[win.start].ok
    /\ ArchiveSearchOf(world.archive[win.start].ids)

SameArchiveSearchFail ==
    /\ pc = "search"
    /\ ~world.archive[win.start].ok
    /\ ArchiveSearchFailOf("transient")

SameLookupOk ==
    /\ pc = "lookup"
    /\ submission_ids[idx] \notin world.lookupFails
    /\ LookupOkOf(RemovedOf(submission_ids[idx]), "text")

SameLookupFail ==
    /\ pc = "lookup"
    /\ submission_ids[idx] \in world.lookupFails
    /\ LookupFailOf("transient")

SameUpload ==
    /\ pc = "upload"
    /\ UploadOf(world.putOk)

\* lines 244-249: the first call has returned, the same call is made again
CallAgain ==
    /\ pc = "done"
    /\ run = 1
    /\ run' = 2
    /\ store1' = store
    /\ now' = world.now2
    /\ pc' = "for"
    /\ current_date' = start_date
    /\ win' = [start |-> start_date, end |-> start_date]
    /\ stories' = <<>>
    /\ listed' = {}
    /\ submission_ids' = <<>>
    /\ idx' = 1
    /\ puts' = <<>>
    /\ windows' = <<>>
    /\ cur' = NewCur
    /\ log' = <<>>
    /\ paced' = "none"
    /\ UNCHANGED <<variant, start_date, end_date, created, store, exc, world>>

NextRerun ==
    \/ ForNext
    \/ ForDone
    \/ SameLiveNext
    \/ SameLiveEnd
    \/ SameLiveFail
    \/ SameArchiveSearch
    \/ SameArchiveSearchFail
    \/ SameLookupOk
    \/ SameLookupFail
    \/ SameUpload
    \/ NoStories
    \/ WindowExcept
    \/ CallAgain

RerunSpec == InitRerun /\ [][NextRerun]_vars

\* -------------------------------------------- scripts/reddit_pipeline.py
\* RedditS3Pipeline: fetch_stories, upload_to_s3, run_pipeline

\* pipeline lines 50-60: the story dict; nothing is filtered
PipeStory(sub) == [id |-> sub.id, created_utc |-> sub.created_utc, selftext |-> sub.selftext]

\* pipeline lines 74-75, 83: raw/reddit_stories_{subreddit}_{YYYY-MM-DD}.json
PipeKey(t) == <<"raw", DateStr(t)>>

\* pipeline lines 66-68: fetch_stories logs and re-raises
FetchStoriesExcept(e) == e

\* pipeline lines 90-92: upload_to_s3 logs and re-raises
UploadExcept(e) == e

\* pipeline lines 102-104: run_pipeline logs and re-raises
RunPipelineExceptWraps(e) == "PipelineError"

RunPipelineExcept(e) == e

InitPipeline ==
    /\ variant = "pipeline"
    /\ now \in NowTimes
    /\ start_date \in StartDates
    /\ end_date = start_date + Day
    /\ created \in {[i \in Ids |-> IF i = 1 THEN start_date ELSE t] :
                        t \in {start_date - 1, start_date + Day}}
    /\ pc = "pipe_fetch"
    /\ current_date = start_date
    /\ win = [start |-> start_date, end |-> start_date]
    /\ stories = <<>>
    /\ listed = {}
    /\ submission_ids = <<>>
    /\ idx = 1
    /\ store = <<>>
    /\ puts = <<>>
    /\ windows = <<>>
    /\ cur = NewCur
    /\ log = <<>>
    /\ paced = "none"
    /\ exc = "none"
    /\ world = NoWorld
    /\ run = 1
    /\ store1 = <<>>

\* pipeline lines 49-61: one iteration over subreddit.hot
PipeFetchNext ==
    /\ pc = "pipe_fetch"
    /\ \E i \in Ids \ listed, r \in RemovedVals, s \in TextVals :
         /\ listed' = listed \cup {i}
         /\ stories' = Append(stories, PipeStory(Submission(i, r, s)))
    /\ cur' = [cur EXCEPT !.live = "running"]
    /\ UNCHANGED <<variant, start_date, end_date, now, created, pc, current_date,
                   win, submission_ids, idx, store, puts, windows, log, paced, exc,
                   world, run, store1>>

\* pipeline lines 63-64, 98: fetch_stories returns the list
PipeFetchReturn ==
    /\ pc = "pipe_fetch"
    /\ cur' = [cur EXCEPT !.live = "done"]
    /\ listed' = {}
    /\ pc' = "pipe_upload"
    /\ UNCHANGED <<variant, start_date, end_date, now, created, current_date, win,
                   stories, submission_ids, idx, store, puts, windows, log, paced,
                   exc, world, run, store1>>

\* pipeline lines 66-68, 102-104: the listing raises; both handlers re-raise
PipeFetchFail ==
    /\ pc = "pipe_fetch"
    /\ \E k \in ErrorKinds :
         /\ cur' = [cur EXCEPT !.live = "failed", !.err = k]
         /\ exc' = RunPipelineExcept(FetchStoriesExcept(k))
    /\ listed' = {}
    /\ pc' = "raised"
    /\ UNCHANGED <<variant, start_date, end_date, now, created, current_date, win,
                   stories, submission_ids, idx, store, puts, windows, log, paced,
                   world, run, store1>>

\* pipeline lines 72-88, 99-100: put_object succeeds, run_pipeline returns
PipeUpload ==
    /\ pc = "pipe_upload"
    /\ puts' = Append(puts, [key |-> PipeKey(now), body |-> stories, ok |-> TRUE,
                             w |-> 0])
    /\ store' = PutBlob(store, PipeKey(now), stories)
    /\ pc' = "done"
    /\ UNCHANGED <<variant, start_date, end_date, now, created, current_date, win,
                   stories, listed, submission_ids, idx, windows, cur, log, paced,
                   exc, world, run, store1>>

\* pipeline lines 81-92, 102-104: put_object raises; both handlers re-raise
PipeUploadFail ==
    /\ pc = "pipe_upload"
    /\ puts' = Append(puts, [key |-> PipeKey(now), body |-> stories, ok |-> FALSE,
                             w |-> 0])
    /\ \E k \in ErrorKinds :
         /\ cur' = [cur EXCEPT !.err = k]
         /\ exc' = RunPipelineExcept(UploadExcept(k))
    /\ pc' = "raised"
    /\ UNCHANGED <<variant, start_date, end_date, now, created, current_date, win,
                   stories, listed, submission_ids, idx, store, windows, log, paced,
                   world, run, store1>>

NextPipeline ==
    \/ PipeFetchNext
    \/ PipeFetchReturn
    \/ PipeFetchFail
    \/ PipeUpload
    \/ PipeUploadFail

PipelineSpec == InitPipeline /\ [][NextPipeline]_vars

\* ===================================================================== claims

\* every record of every write issued so far, with the window that wrote it
Written == UNION {{<<p, i>> : i \in 1..Len(puts[p].body)} : p \in 1..Len(puts)}

ScriptDone == variant = "script" /\ pc = "done"

WindowsChained ==
    /\ \A i \in 1..Len(windows) : windows[i].end = windows[i].start + Day
    /\ Len(windows) > 0 => windows[1].start = start_date
    /\ \A i \in 2..Len(windows) : windows[i].start = windows[i - 1].end

\* C1 as stated: for every range with overall_start < overall_end, also one that
\* is not a whole number of days long, every window is one day long, the first
\* starts at overall_start, each starts where the previous one ended, and the
\* last one ends exactly at overall_end.
C1_WindowsEndAtOverallEnd ==
    (ScriptDone /\ start_date < end_date) =>
        /\ Len(windows) > 0
        /\ WindowsChained
        /\ windows[Len(windows)].end = end_date

\* C1 amended: the windows are one day long, start at overall_start and are
\* contiguous; the last window is the one that contains the end of the range: it
\* starts before overall_end and ends at or after it, exactly at overall_end if
\* and only if the range is a whole number of days long.
C1_WindowsCoverRange ==
    /\ WindowsChained
    /\ (ScriptDone /\ start_date < end_date) =>
        /\ Len(windows) > 0
        /\ windows[Len(windows)].start < end_date
        /\ end_date <= windows[Len(windows)].end
        /\ (windows[Len(windows)].end = end_date) <=>
               ((end_date - start_date) % Day = 0)

C1_Witness ==
    /\ ScriptDone
    /\ Len(windows) = 2
    /\ windows[2].end > end_date

\* C2 as stated: for every window, LIVE is queried only if the window start is
\* within the horizon; ARCHIVE is queried if and only if the window is outside the
\* horizon or the LIVE pass yielded zero eligible records; LIVE records and an
\* ARCHIVE query never occur in the same window.
C2_SourcePolicy ==
    \A i \in 1..Len(log) :
        /\ log[i].live # "no" => InHorizon(now, log[i].win.start)
        /\ (log[i].archive # "no") <=>
               (~InHorizon(now, log[i].win.start) \/ log[i].liveCount = 0)
        /\ ~(log[i].liveCount > 0 /\ log[i].archive # "no")

\* C3 as stated: every record of every batch written for a window W, from the
\* LIVE or the ARCHIVE path, has W.start <= created_at < W.end.
C3_RecordsInsideWindow ==
    \A x \in Written :
        InWindow(puts[x[1]].body[x[2]].created_utc, windows[puts[x[1]].w])

\* C4 as stated: no record id occurs twice in the batches written during one
\* run, neither inside one batch nor in the batches of two windows.
C4_NoDuplicateIds ==
    \A x, y \in Written :
        x # y => puts[x[1]].body[x[2]].id # puts[y[1]].body[y[2]].id

\* C5: in every batch handed to the blob store, from either path, no record has
\* an empty body and no record is flagged removed.
C5_NoEmptyNoRemoved ==
    /\ \A x \in Written :
          /\ puts[x[1]].body[x[2]].text # ""
          /\ puts[x[1]].body[x[2]].removed_by_category = "none"
    /\ \A k \in DOMAIN store : \A i \in 1..Len(store[k]) :
          /\ store[k][i].text # ""
          /\ store[k][i].removed_by_category = "none"

\* a batch was stored for a window in which a candidate was excluded
C5_Witness ==
    /\ Len(log) = Len(windows)
    /\ Len(log) > 0
    /\ log[Len(log)].put = "ok"
    /\ cur.excluded

\* C6: when no record survives in a window, no write is issued, the bucket is
\* left as it was, and the run goes on to the next window (the dag task returns)
\* without an error being recorded for the window.
C6_EmptyWindowWritesNothing ==
    [][(pc = "upload" /\ stories = <<>>) =>
          /\ puts' = puts
          /\ store' = store
          /\ pc' = IF variant = "script" THEN "for" ELSE "done"
          /\ log' = Append(log, Finished("none"))
          /\ cur.err = "none"]_vars

\* a window ended empty after the LIVE pass and the ARCHIVE fallback, and the
\* next window was entered
C6_Witness ==
    /\ Len(windows) = 2
    /\ Len(log) >= 1
    /\ log[1].batch = <<>>
    /\ log[1].live = "done"
    /\ log[1].archive = "queried"
    /\ log[1].err = "none"
    /\ puts = <<>>

PutsOf(i) == {p \in 1..Len(puts) : puts[p].w = i}

\* C7 as stated: every window whose fetch phase has ended with at least one
\* record, in success or after an error, has exactly one write issued, to the
\* key of its start date, carrying exactly the records accumulated for it.
C7_OneWritePerNonEmptyWindow ==
    \A i \in 1..Len(log) :
        log[i].batch # <<>> =>
            /\ Cardinality(PutsOf(i)) = 1
            /\ \A p \in PutsOf(i) :
                  /\ puts[p].key = S3Path(log[i].win.start)
                  /\ puts[p].body = log[i].batch

\* number of day windows of the range
NumWindows ==
    IF start_date < end_date THEN (end_date - start_date + Day - 1) \div Day ELSE 0

\* C8: a run over a finite range terminates, and whatever failed on the way,
\* every window of the range has been attempted, in chronological order.
C8_RunCompletesAllWindows ==
    (variant = "script") =>
        <>(/\ pc = "done"
           /\ Len(windows) = NumWindows
           /\ Len(log) = NumWindows
           /\ \A i \in 1..Len(windows) :
                 windows[i].start = start_date + (i - 1) * Day)

\* the first window failed with a transient error, the second was processed and
\* the run returned
C8_Witness ==
    /\ ScriptDone
    /\ Len(log) = 2
    /\ log[1].err = "transient"

\* C9 as stated: once a source call has failed with a credential error in window
\* k, no later window is entered and the run has raised to its caller.
C9_AuthFailureAborts ==
    \A i \in 1..Len(log) :
        log[i].auth => (Len(windows) = i /\ pc = "raised")

\* the records the ARCHIVE pass must have kept: those of the identifiers whose
\* lookup succeeded, not removed and with a body, in archive order
RECURSIVE KeptOf(_)
KeptOf(ls) ==
    IF ls = <<>> THEN <<>>
    ELSE LET l == ls[Len(ls)]
             rest == KeptOf(SubSeq(ls, 1, Len(ls) - 1))
         IN IF l.ok /\ l.removed_by_category = "none" /\ l.selftext # ""
            THEN Append(rest, [id |-> l.id, created_utc |-> created[l.id],
                               removed_by_category |-> "none", text |-> l.selftext])
            ELSE rest

\* C10: in the ARCHIVE path a failed lookup skips that identifier only: every
\* identifier is looked up in archive order, the stories are exactly the
\* records of the successful lookups that pass the filter, and once the window
\* has ended without a window-level error a non-empty batch has been written
\* to its key.
C10_FailedLookupSkipsOneId ==
    cur.archive = "queried" =>
        /\ stories = KeptOf(cur.lookups)
        /\ Len(cur.lookups) = idx - 1
        /\ \A j \in 1..Len(cur.lookups) : cur.lookups[j].id = submission_ids[j]
        /\ pc \in {"lookup", "upload", "for", "done", "raised"}
        /\ pc # "lookup" => idx = Len(submission_ids) + 1
        /\ (pc \in {"for", "done", "raised"} /\ stories # <<>>) =>
              /\ puts # <<>>
              /\ puts[Len(puts)].w = Len(windows)
              /\ puts[Len(puts)].key = S3Path(win.start)
              /\ puts[Len(puts)].body = stories

\* a window was written although one of its lookups had failed
C10_Witness ==
    /\ cur.archive = "queried"
    /\ pc \in {"for", "done"}
    /\ Len(cur.lookups) = 2
    /\ ~cur.lookups[1].ok
    /\ cur.lookups[2].ok
    /\ stories # <<>>
    /\ store # <<>>

\* C11 as stated: when the LIVE query of a window fails with a transient error,
\* the ARCHIVE source is queried for the same window in the same run.
C11_LiveFailureFallsBackToArchive ==
    \A i \in 1..Len(log) :
        (log[i].live = "failed" /\ log[i].err = "transient") => log[i].archive # "no"

\* C14 as stated: a range with overall_start >= overall_end makes the run fail;
\* it never finishes normally.
C14_InvalidRangeRaises ==
    (variant = "script" /\ start_date >= end_date) => pc # "done"

\* C13 as stated: in download_subreddit_by_date a detail lookup that follows
\* another one is preceded by the per-call delay, and the first call of a window
\* that follows another window is preceded by the inter-window delay, also after
\* a failed lookup and after a window that ended in an error.
C13_CallsArePaced ==
    variant = "script" =>
        /\ (pc = "lookup" /\ idx > 1) => paced = "item"
        /\ (pc \in {"live", "search"} /\ Len(windows) > 1
              /\ cur.live = "no" /\ cur.archive = "no") => paced = "window"

\* C15: run_pipeline calls fetch_stories and then put_object exactly once; an
\* exception of fetch_stories or of upload_to_s3 reaches the caller of
\* run_pipeline unchanged; when fetch_stories fails put_object is never called.
C15_PipelinePropagates ==
    /\ Len(puts) <= 1
    /\ puts # <<>> => (cur.live = "done" /\ puts[1].body = stories)
    /\ (pc \in {"done", "raised"} /\ cur.live = "done") => Len(puts) = 1
    /\ pc = "done" => (puts[1].ok /\ cur.err = "none" /\ exc = "none")
    /\ cur.err # "none" => (pc = "raised" /\ exc = cur.err)
    /\ pc = "raised" => cur.err # "none"
    /\ cur.live = "failed" => puts = <<>>

\* fetch_stories failed after it had collected a story
C15_Witness ==
    /\ pc = "raised"
    /\ cur.live = "failed"
    /\ stories # <<>>
    /\ exc = "transient"
    /\ puts = <<>>

SecondRunDone == run = 2 /\ pc = "done"

\* C12 as stated: after a second run over the same range against unchanged
\* sources the bucket holds, for every key, exactly what it held after the first.
C12_RerunIsIdempotent == SecondRunDone => store = store1

\* every window is on the same side of the live horizon in both runs
SameHorizonSide ==
    \A i \in 1..Len(windows) :
        InHorizon(world.now1, windows[i].start) <=> InHorizon(world.now2, windows[i].start)

\* C12 amended: a second run over the same range against unchanged sources, in
\* which every window is on the same side of the 90-day horizon as in the first
\* run, leaves the bucket with exactly the keys and records of the first run.
C12_RerunIsIdempotentSameHorizon ==
    (SecondRunDone /\ SameHorizonSide) => store = store1

\* a later second run rewrote the batches of the first run
C12_Witness ==
    /\ SecondRunDone
    /\ SameHorizonSide
    /\ world.now2 # world.now1
    /\ puts # <<>>
    /\ puts[1].ok
    /\ store # <<>>
    /\ store = store1

====
